---------------------------- MODULE Spec2Model ----------------------------
(***************************************************************************)
(* A model of the recurrence crate: the timezone-aware stepping iterator   *)
(* (tz_date_iterator.rs), the Daily and Weekly rules with their all() and  *)
(* after() entry points (daily.rs, weekly.rs), the RRule dispatch          *)
(* (rrule.rs) and the ordered, deduplicating merge of a Set (set.rs).      *)
(*                                                                         *)
(* Time is counted in whole seconds since the Unix epoch.  A NaiveDateTime *)
(* is its timestamp; a DateTime<Tz> is a record [utc, off, tz] holding the *)
(* UTC timestamp, the offset the zone has at that instant and the zone; a  *)
(* SystemTime is its number of seconds since the epoch.                    *)
(***************************************************************************)
EXTENDS Integers, Sequences, FiniteSets, TLC

(***************************************************************************)
(* Bounds of the model.                                                    *)
(***************************************************************************)
MaxInterval == 2
MaxCount == 4
MaxPulls == 5

(***************************************************************************)
(* Calendar constants.                                                     *)
(***************************************************************************)
SecondsPerDay == 86400
DAYS_IN_WEEK == 7
SecondsPerHour == 60 * 60
SecondsPerWeek == DAYS_IN_WEEK * SecondsPerDay

(***************************************************************************)
(* Zones (chrono_tz::Tz).  "UTC" never changes its offset.  "DST" is a     *)
(* zone of the Central European shape: standard offset +1h, summer offset  *)
(* +2h, both transitions at 01:00 UTC.  Its spring-forward and fall-back   *)
(* are placed on day 10 and day 17 after the epoch so that daily and       *)
(* weekly streams cross them within a few steps.                           *)
(***************************************************************************)
Zones == {"UTC", "DST"}
StdOffset == SecondsPerHour
DstOffset == 2 * SecondsPerHour
SpringForward == 10 * SecondsPerDay + SecondsPerHour
FallBack == 17 * SecondsPerDay + SecondsPerHour

\* Tz::offset_from_utc_datetime: the offset a zone has at a UTC instant.
Offset(tz, utc) ==
    IF tz = "UTC" THEN 0
    ELSE IF utc >= SpringForward /\ utc < FallBack THEN DstOffset
    ELSE StdOffset

\* Every offset a zone ever has.
ZoneOffsets(tz) == IF tz = "UTC" THEN {0} ELSE {StdOffset, DstOffset}

\* from_system_to_naive: SystemTime -> NaiveDateTime (UTC), whole seconds.
\* duration_since(UNIX_EPOCH).expect("bug") needs time >= epoch; every
\* instant of the model is.
from_system_to_naive(time) == time

\* TimeZone::from_utc_datetime: attach the zone and resolve its offset.
from_utc_datetime(tz, naive) == [utc |-> naive, off |-> Offset(tz, naive), tz |-> tz]

\* DateTime<Tz> -> SystemTime (current.into()).
into_system_time(dt) == dt.utc

\* DateTime::naive_local: the civil timestamp.
naive_local(dt) == dt.utc + dt.off

\* DateTime::date: the civil date, in days since 1970-01-01.
date(dt) == naive_local(dt) \div SecondsPerDay

\* DateTime::time: the civil time of day, in seconds since midnight.
time(dt) == naive_local(dt) % SecondsPerDay

\* Datelike::weekday().number_from_monday(): 1 = Monday .. 7 = Sunday.
\* 1970-01-01 (day 0) is a Thursday.
number_from_monday(d) == ((d + 3) % DAYS_IN_WEEK) + 1

\* DateTime<Tz> + Duration: adds to the UTC instant, offset resolved again.
datetime_add(dt, secs) == from_utc_datetime(dt.tz, dt.utc + secs)

\* Date<Tz>::and_time: TimeZone::from_local_datetime(..).single().  The
\* result is <<dt>> when exactly one instant of the zone has this civil
\* date and time, and <<>> (None) when none has (the hour skipped by a
\* spring-forward) or two have (the hour repeated by a fall-back).
and_time(tz, d, t) ==
    LET local == d * SecondsPerDay + t
        hits == {u \in {local - o : o \in ZoneOffsets(tz)} : Offset(tz, u) = local - u}
    IN IF Cardinality(hits) = 1
       THEN <<from_utc_datetime(tz, CHOOSE u \in hits : TRUE)>>
       ELSE <<>>

(***************************************************************************)
(* End (tz_date_iterator.rs): Until(NaiveDateTime) | Count(u32) | Never.   *)
(* v is the bound of Until, the remaining count of Count and 0 for Never.  *)
(***************************************************************************)
Never == [tag |-> "Never", v |-> 0]
Count(n) == [tag |-> "Count", v |-> n]
Until(u) == [tag |-> "Until", v |-> u]

\* From<crate::End> for End: Until's SystemTime becomes a NaiveDateTime.
end_from(end) ==
    IF end.tag = "Until" THEN Until(from_system_to_naive(end.v)) ELSE end

\* chrono::Duration::days / Duration::weeks, in seconds.
duration_days(n) == n * SecondsPerDay
duration_weeks(n) == n * SecondsPerWeek

(***************************************************************************)
(* TzDateIterator { end, cursor, interval } and its next().                *)
(***************************************************************************)
TzDateIterator(end, cursor, interval) ==
    [end |-> end, cursor |-> cursor, interval |-> interval]

\* The two arms of the match that return None: Count(0), and an Until
\* bound earlier than the cursor (compared as UTC naive timestamps).
\* (stops_at_bound: the variant that also stops at a cursor equal to the
\* Until bound.)
stops_at_bound(it) ==
    \/ it.end.tag = "Count" /\ it.end.v = 0
    \/ it.end.tag = "Until" /\ it.end.v <= it.cursor.utc
\* (stops_after_advance: the variant that compares the Until bound with the
\* cursor one interval ahead.)
stops_after_advance(it) ==
    \/ it.end.tag = "Count" /\ it.end.v = 0
    \/ it.end.tag = "Until" /\ it.end.v < datetime_add(it.cursor, it.interval).utc
stops(it) ==
    \/ it.end.tag = "Count" /\ it.end.v = 0
    \/ it.end.tag = "Until" /\ it.end.v < it.cursor.utc

\* End::Count(ref mut count) => *count -= 1; the other arms leave end alone.
\* (consume_nothing: the variant that forgets the decrement.)
consume_nothing(end) == end
consume(end) == IF end.tag = "Count" THEN Count(end.v - 1) ELSE end

\* next = cursor + interval, shifted back by the offset difference when the
\* two offsets differ.
step(cursor, interval) ==
    LET next == datetime_add(cursor, interval)
    IN IF next.off # cursor.off
       THEN datetime_add(next, -(next.off - cursor.off))
       ELSE next

\* What a pull yields: mem::replace(&mut self.cursor, next), the cursor as
\* it was before the step.
\* (emits_next: the variant that yields the cursor after the step.)
emits_next(current, next) == into_system_time(next)
emitted(current, next) == into_system_time(current)

\* Iterator::next: [it |-> the iterator afterwards, item |-> <<v>> or <<>>].
\* (TzDateIterator_next_steps_first: the variant that advances the cursor
\* before it looks at the policy, so that a pull that returns None has moved
\* the cursor all the same.)
TzDateIterator_next_steps_first(it) ==
    LET next == step(it.cursor, it.interval)
    IN IF stops(it)
       THEN [it |-> TzDateIterator(it.end, next, it.interval), item |-> <<>>]
       ELSE [it |-> TzDateIterator(consume(it.end), next, it.interval),
             item |-> <<emitted(it.cursor, next)>>]
TzDateIterator_next(it) ==
    IF stops(it)
    THEN [it |-> it, item |-> <<>>]
    ELSE LET next == step(it.cursor, it.interval)
         IN [it |-> TzDateIterator(consume(it.end), next, it.interval),
             item |-> <<emitted(it.cursor, next)>>]

(***************************************************************************)
(* Rules.  A rule is [kind, interval, timezone, dtstart, end]: dtstart is  *)
(* the NaiveDateTime (UTC) of the start instant, end is crate::End.        *)
(* all() always returns an iterator; after() returns                       *)
(* [panic |-> FALSE, it |-> iterator], or [panic |-> TRUE, ..] when        *)
(* and_time(..).expect("bug: and_time") panics.                            *)
(***************************************************************************)
NoCursor == [utc |-> 0, off |-> 0, tz |-> "UTC"]
NoIter == TzDateIterator(Never, NoCursor, 0)
Returned(it) == [panic |-> FALSE, it |-> it]
Panicked == [panic |-> TRUE, it |-> NoIter]

Daily_all(r) ==
    TzDateIterator(end_from(r.end),
                   from_utc_datetime(r.timezone, r.dtstart),
                   duration_days(r.interval))

\* The date after() seeks to: min's civil date, or the day after it when
\* min's time of day is later than dtstart's.
\* (Daily_seek_same_day: the variant that always stays on min's date.)
Daily_seek_same_day(min, dtstart) == date(min)
Daily_seek_date(min, dtstart) ==
    IF time(dtstart) < time(min) THEN date(min) + 1 ELSE date(min)

Daily_after(r, m) ==
    LET min == from_utc_datetime(r.timezone, from_system_to_naive(m))
        dtstart == from_utc_datetime(r.timezone, r.dtstart)
        cursor == IF min.utc <= dtstart.utc
                  THEN <<dtstart>>
                  ELSE and_time(r.timezone, Daily_seek_date(min, dtstart), time(dtstart))
    IN IF cursor = <<>>
       THEN Panicked
       ELSE Returned(TzDateIterator(end_from(r.end), cursor[1],
                                    duration_days(r.interval)))

Weekly_all(r) ==
    TzDateIterator(end_from(r.end),
                   from_utc_datetime(r.timezone, r.dtstart),
                   duration_weeks(r.interval))

\* The date after() seeks to: the first date on or after min's whose weekday
\* is dtstart's, a week later when that is min's own date and min's time of
\* day is later than dtstart's.
\* (Weekly_seek_date_signed: the variant that subtracts the weekday numbers
\* without adding DAYS_IN_WEEK first, the remainder keeping the sign.)
Weekly_seek_date_signed(min, dtstart) ==
    LET d == date(min)
        difference == number_from_monday(date(dtstart)) - number_from_monday(d)
    IN IF difference = 0 /\ time(dtstart) < time(min)
       THEN d + 7
       ELSE d + difference
Weekly_seek_date(min, dtstart) ==
    LET d == date(min)
        difference == (number_from_monday(date(dtstart)) + DAYS_IN_WEEK
                       - number_from_monday(d)) % DAYS_IN_WEEK
    IN IF difference = 0 /\ time(dtstart) < time(min)
       THEN d + 7
       ELSE d + difference

\* Duration::num_weeks of a difference of dates (whole weeks, truncated).
num_weeks(days) == days \div DAYS_IN_WEEK

\* c.saturating_sub(n)
saturating_sub(c, n) == IF n >= c THEN 0 ELSE c - n

\* The Count that after() hands to the iterator: c less the whole weeks from
\* dtstart's date to the date sought.
\* (Weekly_seek_end_unchanged: the variant that leaves the Count alone, as
\* Daily::after does.)
Weekly_seek_end_unchanged(end, weeks) == end
Weekly_seek_end(end, weeks) ==
    IF end.tag = "Count" THEN Count(saturating_sub(end.v, weeks)) ELSE end

Weekly_after(r, m) ==
    LET min == from_utc_datetime(r.timezone, from_system_to_naive(m))
        dtstart == from_utc_datetime(r.timezone, r.dtstart)
        before == min.utc <= dtstart.utc
        seek == Weekly_seek_date(min, dtstart)
        end == IF before
               THEN r.end
               ELSE Weekly_seek_end(r.end, num_weeks(seek - date(dtstart)))
        cursor == IF before
                  THEN <<dtstart>>
                  ELSE and_time(r.timezone, seek, time(dtstart))
    IN IF cursor = <<>>
       THEN Panicked
       ELSE Returned(TzDateIterator(end_from(end), cursor[1],
                                    duration_days(r.interval)))

(***************************************************************************)
(* RRule: the tagged union over the rules; all() and after() dispatch.     *)
(***************************************************************************)
RRule_all(r) == IF r.kind = "Daily" THEN Daily_all(r) ELSE Weekly_all(r)
RRule_after(r, m) ==
    IF r.kind = "Daily" THEN Daily_after(r, m) ELSE Weekly_after(r, m)

(***************************************************************************)
(* Set: the rules in insertion order, and the merge of their streams.      *)
(* IterHolder { cursor, iter } holds an iterator and the latest value that *)
(* came out of it; idx is the position of its rule in the Set, which tells *)
(* apart two holders of equal content.  min_heap is the BinaryHeap of      *)
(* Reverse(IterHolder), a set of holders of which pop takes one of least   *)
(* cursor (which one, among equal cursors, the heap does not promise).     *)
(***************************************************************************)
IterHolder(idx, cursor, iter) == [idx |-> idx, cursor |-> cursor, iter |-> iter]

\* The collect() of merge_recurrences: every iterator is pulled once, and
\* those that yield a value enter the heap.
\* (collect_until_empty: the variant that stops at the first iterator that
\* yields nothing, take_while in the place of filter_map.)
collect_until_empty(iters) ==
    { IterHolder(i, TzDateIterator_next(iters[i]).item[1], TzDateIterator_next(iters[i]).it) :
        i \in {j \in DOMAIN iters :
                  \A l \in 1..j : TzDateIterator_next(iters[l]).item # <<>>} }
collect(iters) ==
    { IterHolder(i, TzDateIterator_next(iters[i]).item[1], TzDateIterator_next(iters[i]).it) :
        i \in {j \in DOMAIN iters : TzDateIterator_next(iters[j]).item # <<>>} }

\* The holders BinaryHeap::pop may return: Ord of Reverse(IterHolder) puts
\* the least cursor on top.
\* (pop_greatest: the variant of a max-heap, Reverse forgotten.)
pop_greatest(heap) == {h \in heap : \A g \in heap : g.cursor <= h.cursor}
pop_candidates(heap) == {h \in heap : \A g \in heap : h.cursor <= g.cursor}

\* min_heap.peek() holds the cursor just popped.
\* (never_repeated: the variant without the check, as in the Set::all of
\* rrule.rs.)
never_repeated(heap, cursor) == FALSE
repeated(heap, cursor) ==
    heap # {} /\ \E h \in pop_candidates(heap) : h.cursor = cursor

\* The heap after the popped holder's iterator has been pulled and, when it
\* yielded, pushed back with its new cursor.
\* (pull_and_push_clearing: the variant that gives up the whole heap when the
\* popped iterator is exhausted.)
pull_and_push_clearing(rest, h) ==
    LET r == TzDateIterator_next(h.iter)
    IN IF r.item # <<>>
       THEN rest \cup {IterHolder(h.idx, r.item[1], r.it)}
       ELSE {}
\* (pull_twice_and_push: the variant that pulls the iterator a second time
\* and pushes that value, passing one over.)
pull_twice_and_push(rest, h) ==
    LET r == TzDateIterator_next(TzDateIterator_next(h.iter).it)
    IN IF r.item # <<>>
       THEN rest \cup {IterHolder(h.idx, r.item[1], r.it)}
       ELSE rest
pull_and_push(rest, h) ==
    LET r == TzDateIterator_next(h.iter)
    IN IF r.item # <<>>
       THEN rest \cup {IterHolder(h.idx, r.item[1], r.it)}
       ELSE rest

RECURSIVE merge_next(_)
\* One call of the from_fn closure, the whole while-let loop: the set of
\* its possible results [heap |-> the heap afterwards, item |-> <<v>> or <<>>,
\* rounds |-> the number of times the loop body ran].
merge_next(heap) ==
    IF heap = {}
    THEN {[heap |-> heap, item |-> <<>>, rounds |-> 0]}
    ELSE UNION { LET pushed == pull_and_push(heap \ {h}, h)
                 IN IF repeated(pushed, h.cursor)
                    THEN {[r EXCEPT !.rounds = @ + 1] : r \in merge_next(pushed)}
                    ELSE {[heap |-> pushed, item |-> <<h.cursor>>, rounds |-> 1]}
               : h \in pop_candidates(heap) }

\* Set::all: merge_recurrences(RRule::all).
Set_all(rs) == collect([i \in DOMAIN rs |-> RRule_all(rs[i])])

\* Set::after: merge_recurrences(move |r| r.after(min)).  The collect() calls
\* after(min) on every rule, so a rule whose after() panics makes the call
\* of Set::after panic: [panic |-> TRUE, ..]; otherwise [panic |-> FALSE,
\* heap |-> the heap].
Set_after(rs, m) ==
    LET afters == [i \in DOMAIN rs |-> RRule_after(rs[i], m)]
    IN IF \E i \in DOMAIN rs : afters[i].panic
       THEN [panic |-> TRUE, heap |-> {}]
       ELSE [panic |-> FALSE, heap |-> collect([i \in DOMAIN rs |-> afters[i].it])]

(***************************************************************************)
(* Inputs.  Start instants lie around the two transitions of "DST": at     *)
(* noon, and at a civil time that the spring-forward skips (02:30 on day   *)
(* 10) or the fall-back repeats (02:30 on day 17) one day or one week      *)
(* later.  The instant sought and the Until bound are taken relative to    *)
(* the start.                                                              *)
(***************************************************************************)
Kinds == {"Daily", "Weekly"}
StartInstants ==
    { 3 * SecondsPerDay + SecondsPerHour + 1800,
      9 * SecondsPerDay + 12 * SecondsPerHour,
      9 * SecondsPerDay + SecondsPerHour + 1800,
      16 * SecondsPerDay + 12 * SecondsPerHour,
      16 * SecondsPerDay + 1800 }
MinDeltas ==
    { -40 * SecondsPerHour, 0, 60, SecondsPerDay + 60, 5 * SecondsPerDay + 10,
      12 * SecondsPerDay }
UntilDeltas ==
    { -60, 0, 2 * SecondsPerDay, 3 * SecondsPerDay + 5, 7 * SecondsPerDay }
Ends(start) ==
    {Never} \cup {Count(n) : n \in 0..MaxCount}
            \cup {Until(start + d) : d \in UntilDeltas}

\* Daily::new / Weekly::new with every option given.
new(kind, interval, timezone, dtstart, end) ==
    [kind |-> kind, interval |-> interval, timezone |-> timezone,
     dtstart |-> from_system_to_naive(dtstart), end |-> end]

Rules ==
    { new(k, i, z, s, e) : k \in Kinds, i \in 1..MaxInterval, z \in Zones,
                           s \in StartInstants, e \in UNION {Ends(t) : t \in StartInstants} }

(***************************************************************************)
(* State: one rule, the instant sought, and the two iterators a caller     *)
(* obtains from the rule, one by all() and one by after(min).  Each        *)
(* iterator has a status ("none" before the call, "live", "ended" once a   *)
(* pull has returned None, "panicked" when after() panicked), its          *)
(* TzDateIterator, the values pulled from it so far and the number of      *)
(* calls of next() made on it.                                             *)
(* For a Set: its rules, and the merged stream a caller obtains by all()  *)
(* or by after(min): the entry point called (merged_from), its status,     *)
(* its heap, the values pulled from it so far, the number of calls of      *)
(* next() made on it and the rounds of the loop in the latest call; and a   *)
(* second merged stream obtained from the same Set (other_from, other_st,  *)
(* other_heap, other_out).                                                 *)
(***************************************************************************)
VARIABLES rule, min, all_st, all_it, all_out, all_pulls,
          after_st, after_it, after_out, after_pulls,
          set_rules, merged_from, merged_st, min_heap, merged_out,
          merged_pulls, merged_rounds,
          other_from, other_st, other_heap, other_out

rule_vars == <<rule, min, all_st, all_it, all_out, all_pulls,
               after_st, after_it, after_out, after_pulls>>
other_vars == <<other_from, other_st, other_heap, other_out>>
set_vars == <<set_rules, merged_from, merged_st, min_heap, merged_out,
              merged_pulls, merged_rounds, other_vars>>
vars == <<rule_vars, set_vars>>

NoRule == new("Daily", 1, "UTC", 0, Never)

Init ==
    /\ rule \in {r \in Rules : r.end \in Ends(r.dtstart)}
    /\ min \in {rule.dtstart + d : d \in MinDeltas}
    /\ all_st = "none" /\ all_it = NoIter /\ all_out = <<>> /\ all_pulls = 0
    /\ after_st = "none" /\ after_it = NoIter /\ after_out = <<>> /\ after_pulls = 0
    /\ set_rules = <<>> /\ merged_from = "none"
    /\ merged_st = "none" /\ min_heap = {} /\ merged_out = <<>>
    /\ merged_pulls = 0 /\ merged_rounds = 0
    /\ other_from = "none" /\ other_st = "none" /\ other_heap = {} /\ other_out = <<>>

DailyAll ==
    /\ rule.kind = "Daily" /\ all_st = "none"
    /\ all_st' = "live"
    /\ all_it' = Daily_all(rule)
    /\ UNCHANGED <<rule, min, all_out, all_pulls, after_st, after_it, after_out, after_pulls>>
    /\ UNCHANGED set_vars

WeeklyAll ==
    /\ rule.kind = "Weekly" /\ all_st = "none"
    /\ all_st' = "live"
    /\ all_it' = Weekly_all(rule)
    /\ UNCHANGED <<rule, min, all_out, all_pulls, after_st, after_it, after_out, after_pulls>>
    /\ UNCHANGED set_vars

DailyAfter ==
    /\ rule.kind = "Daily" /\ after_st = "none"
    /\ LET r == Daily_after(rule, min)
       IN /\ after_st' = IF r.panic THEN "panicked" ELSE "live"
          /\ after_it' = r.it
    /\ UNCHANGED <<rule, min, all_st, all_it, all_out, all_pulls, after_out, after_pulls>>
    /\ UNCHANGED set_vars

WeeklyAfter ==
    /\ rule.kind = "Weekly" /\ after_st = "none"
    /\ LET r == Weekly_after(rule, min)
       IN /\ after_st' = IF r.panic THEN "panicked" ELSE "live"
          /\ after_it' = r.it
    /\ UNCHANGED <<rule, min, all_st, all_it, all_out, all_pulls, after_out, after_pulls>>
    /\ UNCHANGED set_vars

\* One pull on the iterator of all().
AllNext ==
    /\ all_st \in {"live", "ended"}
    /\ Len(all_out) < MaxPulls /\ all_pulls <= MaxPulls
    /\ all_pulls' = all_pulls + 1
    /\ LET r == TzDateIterator_next(all_it)
       IN /\ all_it' = r.it
          /\ all_st' = IF r.item = <<>> THEN "ended" ELSE all_st
          /\ all_out' = all_out \o r.item
    /\ UNCHANGED <<rule, min, after_st, after_it, after_out, after_pulls>>
    /\ UNCHANGED set_vars

\* One pull on the iterator of after(min).
\* (AfterNext_sharing: the variant in which the iterators of one rule write
\* one cursor, so that a pull on one moves the other.)
AfterNext_sharing ==
    /\ after_st \in {"live", "ended"}
    /\ Len(after_out) < MaxPulls /\ after_pulls <= MaxPulls
    /\ after_pulls' = after_pulls + 1
    /\ LET r == TzDateIterator_next(after_it)
       IN /\ after_it' = r.it
          /\ after_st' = IF r.item = <<>> THEN "ended" ELSE after_st
          /\ after_out' = after_out \o r.item
          /\ all_it' = [all_it EXCEPT !.cursor = r.it.cursor]
    /\ UNCHANGED <<rule, min, all_st, all_out, all_pulls>>
    /\ UNCHANGED set_vars
AfterNext ==
    /\ after_st \in {"live", "ended"}
    /\ Len(after_out) < MaxPulls /\ after_pulls <= MaxPulls
    /\ after_pulls' = after_pulls + 1
    /\ LET r == TzDateIterator_next(after_it)
       IN /\ after_it' = r.it
          /\ after_st' = IF r.item = <<>> THEN "ended" ELSE after_st
          /\ after_out' = after_out \o r.item
    /\ UNCHANGED <<rule, min, all_st, all_it, all_out, all_pulls>>
    /\ UNCHANGED set_vars

Next ==
    \/ DailyAll
    \/ WeeklyAll
    \/ DailyAfter
    \/ WeeklyAfter
    \/ AllNext
    \/ AfterNext

Spec == Init /\ [][Next]_vars

(***************************************************************************)
(* Sets.  The rules a Set is built from start at noon of day 9 or 36 hours *)
(* earlier, so that their streams interleave, coincide (equal starts, in   *)
(* one zone or until "DST" changes its offset) and, for the rules that     *)
(* end, run out.                                                           *)
(***************************************************************************)
MaxRules == 3
SetStart == 9 * SecondsPerDay + 12 * SecondsPerHour
\* The instant a Set is sought from: past the start of all its rules.
SetMin == SetStart + 60
SetRules ==
    { new(k, 1, z, s, Never) :
        k \in Kinds, z \in Zones, s \in {SetStart, SetStart - 36 * SecondsPerHour} }
    \cup { new("Daily", 1, "UTC", SetStart, Count(2)),
           new("Daily", 2, "DST", SetStart, Count(2)),
           new("Weekly", 1, "UTC", SetStart, Count(1)),
           new("Daily", 1, "UTC", SetStart, Until(SetStart + SecondsPerDay)),
           new("Daily", 1, "DST", SpringForward - SecondsPerDay + SecondsPerHour \div 2,
               Never) }

SetInit ==
    /\ set_rules \in UNION {[1..n -> SetRules] : n \in 0..MaxRules}
    /\ merged_from = "none"
    /\ merged_st = "none" /\ min_heap = {} /\ merged_out = <<>>
    /\ merged_pulls = 0 /\ merged_rounds = 0
    /\ other_from = "none" /\ other_st = "none" /\ other_heap = {} /\ other_out = <<>>
    /\ rule = NoRule /\ min = SetMin
    /\ all_st = "none" /\ all_it = NoIter /\ all_out = <<>> /\ all_pulls = 0
    /\ after_st = "none" /\ after_it = NoIter /\ after_out = <<>> /\ after_pulls = 0

\* set.all()
SetAll ==
    /\ merged_st = "none"
    /\ merged_st' = "live"
    /\ merged_from' = "all"
    /\ min_heap' = Set_all(set_rules)
    /\ UNCHANGED <<set_rules, merged_out, merged_pulls, merged_rounds, other_vars>>
    /\ UNCHANGED rule_vars

\* set.after(min)
SetAfter ==
    /\ merged_st = "none"
    /\ LET r == Set_after(set_rules, min)
       IN /\ merged_st' = IF r.panic THEN "panicked" ELSE "live"
          /\ min_heap' = r.heap
    /\ merged_from' = "after"
    /\ UNCHANGED <<set_rules, merged_out, merged_pulls, merged_rounds, other_vars>>
    /\ UNCHANGED rule_vars

\* One pull on the merged stream.
MergedNext ==
    /\ merged_st \in {"live", "ended"}
    /\ Len(merged_out) < MaxPulls /\ merged_pulls <= MaxPulls
    /\ merged_pulls' = merged_pulls + 1
    /\ \E r \in merge_next(min_heap) :
          /\ merged_rounds' = r.rounds
          /\ min_heap' = r.heap
          /\ merged_st' = IF r.item = <<>> THEN "ended" ELSE merged_st
          /\ merged_out' = merged_out \o r.item
    /\ UNCHANGED <<set_rules, merged_from, other_vars>>
    /\ UNCHANGED rule_vars

SetNext ==
    \/ SetAll
    \/ SetAfter
    \/ MergedNext

SetSpec == SetInit /\ [][SetNext]_vars

(***************************************************************************)
(* Two merged streams of one Set, pulled in any interleaving; and, in the  *)
(* same specification, the two iterators of one rule as in Spec.  A caller *)
(* holds a rule (set_rules is empty) or a Set.                             *)
(***************************************************************************)
MaxPairRules == 2
PairRules ==
    { new("Daily", 1, "UTC", SetStart, Count(2)),
      new("Weekly", 1, "UTC", SetStart, Count(1)),
      new("Daily", 1, "DST", SetStart, Never),
      new("Daily", 1, "UTC", SetStart - 36 * SecondsPerHour, Never) }

PairInit ==
    \/ Init
    \/ /\ SetInit
       /\ set_rules \in UNION {[1..n -> PairRules] : n \in 1..MaxPairRules}

\* set.all(), a second time
OtherAll ==
    /\ other_st = "none"
    /\ other_st' = "live"
    /\ other_from' = "all"
    /\ other_heap' = Set_all(set_rules)
    /\ UNCHANGED <<set_rules, merged_from, merged_st, min_heap, merged_out,
                   merged_pulls, merged_rounds, other_out>>
    /\ UNCHANGED rule_vars

\* set.after(min), a second time
OtherAfter ==
    /\ other_st = "none"
    /\ LET r == Set_after(set_rules, min)
       IN /\ other_st' = IF r.panic THEN "panicked" ELSE "live"
          /\ other_heap' = r.heap
    /\ other_from' = "after"
    /\ UNCHANGED <<set_rules, merged_from, merged_st, min_heap, merged_out,
                   merged_pulls, merged_rounds, other_out>>
    /\ UNCHANGED rule_vars

\* One pull on the second merged stream.
OtherNext ==
    /\ other_st \in {"live", "ended"}
    /\ Len(other_out) < MaxPulls
    /\ \E r \in merge_next(other_heap) :
          /\ other_heap' = r.heap
          /\ other_st' = IF r.item = <<>> THEN "ended" ELSE other_st
          /\ other_out' = other_out \o r.item
    /\ UNCHANGED <<set_rules, merged_from, merged_st, min_heap, merged_out,
                   merged_pulls, merged_rounds, other_from>>
    /\ UNCHANGED rule_vars

PairNext ==
    \/ set_rules = <<>> /\ DailyAll
    \/ set_rules = <<>> /\ WeeklyAll
    \/ set_rules = <<>> /\ DailyAfter
    \/ set_rules = <<>> /\ WeeklyAfter
    \/ set_rules = <<>> /\ AllNext
    \/ set_rules = <<>> /\ AfterNext
    \/ set_rules # <<>> /\ SetAll
    \/ set_rules # <<>> /\ SetAfter
    \/ set_rules # <<>> /\ MergedNext
    \/ set_rules # <<>> /\ OtherAll
    \/ set_rules # <<>> /\ OtherAfter
    \/ set_rules # <<>> /\ OtherNext

PairSpec == PairInit /\ [][PairNext]_vars

\* The Sets with their rules in one fixed order (by kind, zone, start,
\* interval and end), one Set for every collection of rules: what
\* rrule() is called with, whatever the order of the calls.
RuleKey(r) ==
    << IF r.kind = "Daily" THEN 0 ELSE 1,
       IF r.timezone = "UTC" THEN 0 ELSE 1,
       r.dtstart, r.interval,
       IF r.end.tag = "Never" THEN 0 ELSE IF r.end.tag = "Count" THEN 1 ELSE 2,
       r.end.v >>
KeyLeq(a, b) ==
    \E k \in 1..(Len(a) + 1) :
        /\ \A j \in 1..(k - 1) : a[j] = b[j]
        /\ k = Len(a) + 1 \/ a[k] < b[k]
OrderInit ==
    /\ SetInit
    /\ \A i \in 1..(Len(set_rules) - 1) :
          KeyLeq(RuleKey(set_rules[i]), RuleKey(set_rules[i + 1]))

OrderSpec == OrderInit /\ [][SetNext]_vars

(***************************************************************************)
(* Operators used to state the properties.                                 *)
(***************************************************************************)
RECURSIVE Take(_, _)
\* The first k values of an iterator's stream (fewer when it ends before).
Take(it, k) ==
    IF k = 0 THEN <<>>
    ELSE LET r == TzDateIterator_next(it)
         IN IF r.item = <<>> THEN <<>> ELSE r.item \o Take(r.it, k - 1)

IsPrefix(a, b) == Len(a) <= Len(b) /\ SubSeq(b, 1, Len(a)) = a
Range(q) == {q[i] : i \in 1..Len(q)}
Max(a, b) == IF a >= b THEN a ELSE b

\* The rule's start as a DateTime of its zone, and the seconds of one
\* interval of the rule in a zone that never changes its offset.
StartDt == from_utc_datetime(rule.timezone, rule.dtstart)
MinDt == from_utc_datetime(rule.timezone, min)
Unit == IF rule.kind = "Daily" THEN SecondsPerDay ELSE SecondsPerWeek
Pulled(st) == st \in {"live", "ended"}

\* The occurrences of the rule: its stream when nothing ends it.
Unbounded == [rule EXCEPT !.end = Never]
Occurrences(k) == Take(RRule_all(Unbounded), k)

\* C1: for a rule whose policy allows one occurrence (Never, Count(n) with
\* n >= 1, Until(u) with u not before start), all() does yield a first value
\* and that value is start.
AllowsOne ==
    \/ rule.end.tag = "Never"
    \/ rule.end.tag = "Count" /\ rule.end.v >= 1
    \/ rule.end.tag = "Until" /\ rule.end.v >= rule.dtstart
C1_FirstIsStart ==
    (Pulled(all_st) /\ AllowsOne) =>
        /\ Len(all_out) >= 1 => all_out[1] = rule.dtstart
        /\ all_st = "ended" => Len(all_out) >= 1
C1_Witness ==
    /\ AllowsOne /\ rule.end.tag = "Until" /\ rule.end.v = rule.dtstart + 2 * SecondsPerDay
    /\ rule.timezone = "DST" /\ Len(all_out) = 1 /\ all_out[1] = rule.dtstart

\* C2: the k-th value of all() (0-indexed) is start plus k * interval civil
\* days (Daily) or weeks (Weekly): its civil timestamp in the rule's zone is
\* the civil timestamp of start plus k * interval days or weeks.  Where the
\* offset never changes this is start + k * interval * 86400 (* 7) seconds.
\* (A k whose civil timestamp the zone skips has no such instant and is
\* left out.)
CivilExists(tz, local) == \E o \in ZoneOffsets(tz) : Offset(tz, local - o) = o
C2_KthValueCivil ==
    \A k \in 1..Len(all_out) :
        LET civil == naive_local(StartDt) + (k - 1) * rule.interval * Unit
        IN CivilExists(rule.timezone, civil) =>
              naive_local(from_utc_datetime(rule.timezone, all_out[k])) = civil
\* The part of C2 about a zone without transitions, which holds.
C2_KthValueFixedOffset ==
    rule.timezone = "UTC" =>
        \A k \in 1..Len(all_out) :
            all_out[k] = rule.dtstart + (k - 1) * rule.interval * Unit

\* C3: with Count(n), all() yields exactly n values and then ends: never
\* more than n, and it does not end before the n-th.
C3_CountExact ==
    (Pulled(all_st) /\ rule.end.tag = "Count") =>
        /\ Len(all_out) <= rule.end.v
        /\ all_st = "ended" => Len(all_out) = rule.end.v
        /\ all_it.end = Count(rule.end.v - Len(all_out))
C3_Witness ==
    /\ rule.end = Count(MaxCount) /\ all_st = "ended" /\ Len(all_out) = MaxCount

\* C4 as amended: with Until(u), all() yields exactly the occurrences at or
\* before u; an occurrence at u itself is yielded, none after u is.
C4_UntilInclusive ==
    (Pulled(all_st) /\ rule.end.tag = "Until") =>
        LET upto == SelectSeq(Occurrences(MaxPulls + 1), LAMBDA v : v <= rule.end.v)
        IN /\ IsPrefix(all_out, upto)
           /\ all_st = "ended" => all_out = upto
C4_Witness ==
    /\ rule.end.tag = "Until" /\ all_st = "ended"
    /\ Len(all_out) >= 2 /\ all_out[Len(all_out)] = rule.end.v
\* C4 as claimed: with Until(u), all() yields exactly the occurrences
\* earlier than u; the occurrence at u itself is excluded.
C4_UntilExclusive ==
    (Pulled(all_st) /\ rule.end.tag = "Until") =>
        LET before == SelectSeq(Occurrences(MaxPulls + 1), LAMBDA v : v < rule.end.v)
        IN /\ IsPrefix(all_out, before)
           /\ all_st = "ended" => all_out = before

\* Two streams pulled so far agree: one is a prefix of the other, and a
\* stream that has ended is not the shorter one.
Agree(a, a_ended, b, b_ended) ==
    /\ IsPrefix(a, b) \/ IsPrefix(b, a)
    /\ a_ended => IsPrefix(b, a)
    /\ b_ended => IsPrefix(a, b)
FromMin(q) == SelectSeq(q, LAMBDA v : v >= min)

\* C7: for a Daily rule ending Never or Until, the stream of after(min) is
\* the stream of all() without its values before min.
C7_DailyAfterIsAllFromMin ==
    (rule.kind = "Daily" /\ rule.end.tag # "Count" /\ Pulled(all_st) /\ Pulled(after_st)) =>
        Agree(FromMin(all_out), all_st = "ended", after_out, after_st = "ended")

\* C8: for a Weekly rule with any policy, the stream of after(min) is the
\* stream of all() without its values before min.
C8_WeeklyAfterIsAllFromMin ==
    (rule.kind = "Weekly" /\ Pulled(all_st) /\ Pulled(after_st)) =>
        Agree(FromMin(all_out), all_st = "ended", after_out, after_st = "ended")

\* The date sought by a Weekly after(min): the first civil date on start's
\* weekday whose occurrence, at start's time of day, is not before min.
SoughtDate ==
    CHOOSE d \in date(MinDt)..(date(MinDt) + DAYS_IN_WEEK) :
        /\ number_from_monday(d) = number_from_monday(date(StartDt))
        /\ d * SecondsPerDay + time(StartDt) >= naive_local(MinDt)
        /\ \A e \in date(MinDt)..(d - 1) :
              ~ /\ number_from_monday(e) = number_from_monday(date(StartDt))
                /\ e * SecondsPerDay + time(StartDt) >= naive_local(MinDt)
WeeksSkipped == (SoughtDate - date(StartDt)) \div DAYS_IN_WEEK

C10_DailyAfterWithinAll ==
    (rule.kind = "Daily" /\ rule.end.tag = "Count" /\ min > rule.dtstart
        /\ Pulled(after_st)) =>
        LET whole == Take(Daily_all(rule), rule.end.v)
        IN /\ Range(after_out) \subseteq Range(whole)
           /\ Len(after_out) <= Len(FromMin(whole))

\* The stream of all() of the i-th rule of the Set, k values of it.
\* The first k values of the i-th rule's stream, from the entry point the
\* Set was merged through.
RuleIter(i) ==
    IF merged_from = "after" THEN RRule_after(set_rules[i], min).it
    ELSE RRule_all(set_rules[i])
RuleStream(i, k) == Take(RuleIter(i), k)
\* Every instant some rule of the Set yields among its first k values.
Produced(k) == UNION {Range(RuleStream(i, k)) : i \in DOMAIN set_rules}
\* The rules of the Set that yield the instant v among their first k values.
Producers(v, k) == {i \in DOMAIN set_rules : v \in Range(RuleStream(i, k))}

\* C5: the stream of Set.all() is strictly ascending: every value is larger
\* than the one before it.
C5_MergedStrictlyAscending ==
    \A i \in 1..(Len(merged_out) - 1) : merged_out[i] < merged_out[i + 1]
C5_Witness ==
    /\ Len(set_rules) = MaxRules /\ Len(merged_out) = MaxPulls
    /\ \E i, j \in DOMAIN set_rules :
          /\ set_rules[i].dtstart # set_rules[j].dtstart
          /\ set_rules[i].timezone # set_rules[j].timezone
    /\ \E v \in Range(merged_out) : Cardinality(Producers(v, MaxPulls)) >= 2

\* C6: the merged stream holds every instant that a rule of the Set yields
\* exactly once, and nothing else: no value twice, no value that no rule
\* yields, and no rule's instant passed over (none missing below the last
\* value pulled, none at all once the merged stream has ended).
C6_MergedIsUnionOnce ==
    Pulled(merged_st) =>
        /\ \A i, j \in 1..Len(merged_out) : merged_out[i] = merged_out[j] => i = j
        /\ Range(merged_out) \subseteq Produced(MaxPulls + 1)
        /\ \A v \in Produced(MaxPulls + 1) :
              (\E i \in 1..Len(merged_out) : v <= merged_out[i]) => v \in Range(merged_out)
        /\ merged_st = "ended" => Range(merged_out) = Produced(MaxPulls + 1)
C6_Witness ==
    /\ merged_st = "ended" /\ Len(merged_out) = 3
    /\ \E v \in Range(merged_out) : Cardinality(Producers(v, MaxPulls)) = 3
    /\ \E v \in Range(merged_out) : Cardinality(Producers(v, MaxPulls)) = 1


(***************************************************************************)
(* Seeking: the first value of after(min) and the values behind it.        *)
(***************************************************************************)
StrictlyAscending(q) == \A i \in 1..(Len(q) - 1) : q[i] < q[i + 1]

\* The date the claim names for a seek past start: min's civil date, or the
\* next date of the rule's pattern when min's time of day is later than
\* start's (the next day for Daily, the next date on start's weekday for
\* Weekly, as SoughtDate finds it).
NamedDate ==
    IF rule.kind = "Weekly" THEN SoughtDate
    ELSE IF time(MinDt) > time(StartDt) THEN date(MinDt) + 1 ELSE date(MinDt)

\* C11: no value of the stream that after(min) returns is before min; when
\* min is later than start the first value is start's time of day on the
\* date named above, and every later value is larger than the one before.
C11_AfterNeverBeforeMin ==
    Pulled(after_st) =>
        /\ \A i \in 1..Len(after_out) : after_out[i] >= min
        /\ StrictlyAscending(after_out)
        /\ (min > rule.dtstart /\ Len(after_out) >= 1) =>
              LET first == from_utc_datetime(rule.timezone, after_out[1])
              IN /\ time(first) = time(StartDt)
                 /\ date(first) = NamedDate
C11_Witness ==
    /\ rule.kind = "Daily" /\ rule.timezone = "DST"
    /\ min > rule.dtstart /\ time(MinDt) > time(StartDt)
    /\ Pulled(after_st) /\ Len(after_out) >= 2
    /\ after_out[1] > min

\* C12: when min is at or before start, after(min) yields the same sequence
\* as all(): it begins with start, the two streams agree value by value and
\* end after the same number of values (a Count is spent as in all()).
SameAsAll ==
    /\ Agree(all_out, all_st = "ended", after_out, after_st = "ended")
    /\ after_out # <<>> => after_out[1] = rule.dtstart
C12_NoOpSeek ==
    (min <= rule.dtstart /\ Pulled(all_st) /\ Pulled(after_st)) => SameAsAll

\* The Daily half of C12 (Daily::after steps by days, as Daily::all does).
C12_DailyNoOpSeek ==
    (rule.kind = "Daily" /\ min <= rule.dtstart /\ Pulled(all_st) /\ Pulled(after_st))
        => SameAsAll

\* C13: for a Weekly rule and min on start's own date after start's time of
\* day, the first value of after(min) is the rule's next occurrence: start's
\* time of day on the date interval weeks after start's.
OnStartDatePastStart ==
    /\ rule.kind = "Weekly" /\ min > rule.dtstart
    /\ date(MinDt) = date(StartDt) /\ time(MinDt) > time(StartDt)
    /\ Pulled(after_st) /\ Len(after_out) >= 1
FirstIsWeeksLater(n) ==
    LET first == from_utc_datetime(rule.timezone, after_out[1])
    IN /\ date(first) = date(StartDt) + DAYS_IN_WEEK * n
       /\ time(first) = time(StartDt)
C13_WeeklyNextIntervalLater ==
    OnStartDatePastStart => FirstIsWeeksLater(rule.interval)

\* What the code does in the case of C13: one week later, whatever the
\* interval.
C13_WeeklyNextWeekLater ==
    OnStartDatePastStart => FirstIsWeeksLater(1)

(***************************************************************************)
(* Real-time gaps between consecutive values of all().                     *)
(***************************************************************************)
Magnitude == DstOffset - StdOffset
Nominal == rule.interval * Unit
Crosses(a, b, transition) ==
    rule.timezone = "DST" /\ a < transition /\ transition <= b

\* The gap the claim names for two consecutive values a, b.
GapAsNamed(a, b) ==
    /\ (Crosses(a, b, SpringForward) /\ ~Crosses(a, b, FallBack))
          => b - a = Nominal - Magnitude
    /\ (Crosses(a, b, FallBack) /\ ~Crosses(a, b, SpringForward))
          => b - a = Nominal + Magnitude
    /\ (~Crosses(a, b, SpringForward) /\ ~Crosses(a, b, FallBack))
          => b - a = Nominal

\* C14: two consecutive values of all() are the nominal increment less the
\* transition magnitude apart when a spring-forward lies between them, the
\* nominal increment plus the magnitude when a fall-back lies between them,
\* and the nominal increment when no transition lies between them.
C14_GapsAcrossTransitions ==
    Pulled(all_st) =>
        \A i \in 1..(Len(all_out) - 1) : GapAsNamed(all_out[i], all_out[i + 1])

\* The same, for the steps whose nominal target is not inside the hour after
\* the spring-forward (the civil hour the zone skips).
TargetSkipped(a) ==
    /\ rule.timezone = "DST"
    /\ a + Nominal >= SpringForward /\ a + Nominal < SpringForward + Magnitude
    /\ a < SpringForward
C14_GapsAwayFromSkippedHour ==
    Pulled(all_st) =>
        \A i \in 1..(Len(all_out) - 1) :
            ~TargetSkipped(all_out[i]) => GapAsNamed(all_out[i], all_out[i + 1])

(***************************************************************************)
(* The steps of an iterator.                                               *)
(***************************************************************************)
\* An iterator that has returned None stays as it is: the next pull returns
\* None again (no value is added) and cursor and policy are unchanged.
StaysEnded(st, st_next, it, it_next, out, out_next) ==
    st = "ended" => st_next = "ended" /\ it_next = it /\ out_next = out

\* The remaining count of an iterator in use never grows (and never leaves
\* Count).
CountNeverGrows(st, it, it_next) ==
    (Pulled(st) /\ it.end.tag = "Count") =>
        it_next.end.tag = "Count" /\ it_next.end.v <= it.end.v

\* C16: exhaustion is permanent.  In every step, an iterator (of all() or of
\* after()) that has returned None returns None again and keeps its cursor
\* and its remaining count, and no step makes a remaining count larger.
C16_ExhaustionPermanent ==
    [][/\ StaysEnded(all_st, all_st', all_it, all_it', all_out, all_out')
       /\ StaysEnded(after_st, after_st', after_it, after_it', after_out, after_out')
       /\ CountNeverGrows(all_st, all_it, all_it')
       /\ CountNeverGrows(after_st, after_it, after_it')]_vars
\* all() of a Count rule was pulled again after it had returned None, and
\* after() of the same rule likewise.
C16_Witness ==
    /\ rule.end.tag = "Count" /\ rule.end.v >= 2
    /\ all_st = "ended" /\ all_pulls >= Len(all_out) + 2
    /\ all_it.end = Count(0) /\ Len(all_out) = rule.end.v
    /\ after_st = "ended" /\ after_pulls >= Len(after_out) + 2
C16_WitnessUntil ==
    /\ rule.end.tag = "Until" /\ all_st = "ended" /\ Len(all_out) >= 2
    /\ all_pulls >= Len(all_out) + 2
    /\ all_it.cursor.utc > rule.end.v

(***************************************************************************)
(* Civil time of day of the values of all().                               *)
(***************************************************************************)
\* The k-th value has start's time of day in the rule's zone.  (A value on
\* a date where the zone skips that time of day is not asked for it.)
KeepsTimeOfDay(v) ==
    LET dt == from_utc_datetime(rule.timezone, v)
    IN CivilExists(rule.timezone, date(dt) * SecondsPerDay + time(StartDt))
          => time(dt) = time(StartDt)

\* C18: every value of all() has the civil time of day of start, whatever
\* the start and however many transitions the steps have crossed.
C18_TimeOfDayPreserved ==
    Pulled(all_st) => \A k \in 1..Len(all_out) : KeepsTimeOfDay(all_out[k])

\* The starts for which C18 holds: those whose time of day is not inside the
\* civil hour skipped by a spring-forward still ahead of them.
StartInSkippedHour ==
    /\ rule.timezone = "DST" /\ rule.dtstart < SpringForward
    /\ time(StartDt) >= (SpringForward + StdOffset) % SecondsPerDay
    /\ time(StartDt) < (SpringForward + DstOffset) % SecondsPerDay
C18_TimeOfDayPreservedElsewhere ==
    (Pulled(all_st) /\ ~StartInSkippedHour) =>
        \A k \in 1..Len(all_out) : KeepsTimeOfDay(all_out[k])

\* The second half of C18: whenever the offsets of cursor and cursor +
\* interval differ, the new cursor is cursor + interval less that difference.
C18_ShiftIsOffsetDelta ==
    [][(Pulled(all_st) /\ all_it'.cursor # all_it.cursor) =>
          LET next == datetime_add(all_it.cursor, all_it.interval)
          IN all_it'.cursor.utc = next.utc - (next.off - all_it.cursor.off)]_vars

\* One call of next() on an iterator, as C19 describes it.
StepAsDescribed(it, it_next, st_next, out, out_next) ==
    LET emits == /\ out_next = Append(out, it.cursor.utc)
                 /\ it_next.cursor.utc > it.cursor.utc
        none == out_next = out /\ st_next = "ended" /\ it_next.cursor = it.cursor
    IN /\ it.end.tag = "Until" =>
             /\ it.end.v < it.cursor.utc => none
             /\ ~(it.end.v < it.cursor.utc) => emits
       /\ (it.end.tag = "Count" /\ it.end.v > 0) =>
             emits /\ it_next.end = Count(it.end.v - 1)
       /\ it.end.tag \in {"Until", "Never"} => it_next.end = it.end

\* C19: in every call of next(), on the iterator of all() and on that of
\* after(): with Until(u) the call returns None exactly when u is earlier
\* than the cursor as it is before the call, and otherwise yields that
\* cursor and moves it forward; Count(n), n > 0, becomes Count(n - 1) with
\* the value yielded; Until and Never stay as they are.
C19_StepComparesBeforeAdvance ==
    [][/\ all_pulls' = all_pulls + 1 =>
             StepAsDescribed(all_it, all_it', all_st', all_out, all_out')
       /\ after_pulls' = after_pulls + 1 =>
             StepAsDescribed(after_it, after_it', after_st', after_out, after_out')]_vars
\* An Until rule whose last value is the bound itself: the call at that
\* cursor yielded it, the call after it returned None.
C19_Witness ==
    /\ rule.end.tag = "Until" /\ all_st = "ended" /\ Len(all_out) >= 2
    /\ all_out[Len(all_out)] = rule.end.v
    /\ all_it.end = Until(rule.end.v) /\ all_it.cursor.utc > rule.end.v
    /\ all_pulls = Len(all_out) + 1

(***************************************************************************)
(* The date Weekly::after seeks to.                                        *)
(***************************************************************************)
SameWeekday(d, e) == number_from_monday(d) = number_from_monday(e)

\* C20: for a Weekly rule and min later than start, the first value of the
\* stream after(min) returns is on start's weekday at start's time of day,
\* is not before min, and no earlier date from min's on gives such a
\* date-time at or after min; its date is 0 to 6 days after min's date, or
\* exactly 7 days after when min's date has start's weekday and min's time
\* of day is past start's.
C20_WeeklySeeksNextWeekday ==
    (rule.kind = "Weekly" /\ min > rule.dtstart /\ Pulled(after_st)
        /\ Len(after_out) >= 1) =>
        LET first == from_utc_datetime(rule.timezone, after_out[1])
            days == date(first) - date(MinDt)
            week_later == /\ SameWeekday(date(MinDt), date(StartDt))
                          /\ time(MinDt) > time(StartDt)
        IN /\ SameWeekday(date(first), date(StartDt))
           /\ time(first) = time(StartDt)
           /\ after_out[1] >= min
           /\ \A e \in date(MinDt)..(date(first) - 1) :
                 ~ /\ SameWeekday(e, date(StartDt))
                   /\ e * SecondsPerDay + time(StartDt) >= naive_local(MinDt)
           /\ IF week_later THEN days = DAYS_IN_WEEK
              ELSE days \in 0..(DAYS_IN_WEEK - 1)
\* min on a weekday whose number is greater than that of start's weekday
\* (the subtraction of the numbers is negative), and min on start's weekday
\* past start's time of day.
C20_Witness ==
    /\ rule.kind = "Weekly" /\ min > rule.dtstart /\ Pulled(after_st)
    /\ Len(after_out) >= 1
    /\ number_from_monday(date(StartDt)) < number_from_monday(date(MinDt))
    /\ date(from_utc_datetime(rule.timezone, after_out[1])) - date(MinDt) = 6
C20_WitnessWeekLater ==
    /\ rule.kind = "Weekly" /\ min > rule.dtstart /\ Pulled(after_st)
    /\ Len(after_out) >= 1
    /\ SameWeekday(date(MinDt), date(StartDt)) /\ time(MinDt) > time(StartDt)
    /\ date(from_utc_datetime(rule.timezone, after_out[1])) - date(MinDt) = 7

(***************************************************************************)
(* The merged stream of a Set and the order of its rules.                  *)
(***************************************************************************)
RECURSIVE MergeRun(_, _)
\* The sequences that k calls of the merged stream's next() can yield from
\* a heap (one sequence, unless the order of popping equal cursors matters).
MergeRun(heap, k) ==
    IF k = 0 THEN {<<>>}
    ELSE UNION { IF r.item = <<>> THEN {<<>>}
                 ELSE {r.item \o q : q \in MergeRun(r.heap, k - 1)}
               : r \in merge_next(heap) }

\* The permutations of 1..n, for every size of Set, and the Set's rules in
\* the order p.
Orders ==
    [n \in 0..MaxRules |->
        {p \in [1..n -> 1..n] : \A i, j \in 1..n : p[i] = p[j] => i = j}]
Permuted(p) == [i \in DOMAIN set_rules |-> set_rules[p[i]]]

\* What the entry point that was called on the Set (all() or after(min))
\* returns for the rules rs.
Merged(rs) ==
    IF merged_from = "after" THEN Set_after(rs, min)
    ELSE [panic |-> FALSE, heap |-> Set_all(rs)]

\* C15: the merged stream does not depend on the order of the rules.  For
\* every permutation of the Set's rules, the same entry point yields the
\* values pulled so far, in the same order, ends where this stream has ended
\* and panics where this call has panicked.
C15_OrderOfRulesIrrelevant ==
    merged_from # "none" =>
        \A p \in Orders[Len(set_rules)] :
            LET m == Merged(Permuted(p))
                calls == Len(merged_out) + IF merged_st = "ended" THEN 1 ELSE 0
            IN /\ m.panic <=> merged_st = "panicked"
               /\ ~m.panic => MergeRun(m.heap, calls) = {merged_out}
\* Three different rules, two of them yielding the same instant, merged
\* through after(min).
C15_Witness ==
    /\ Len(set_rules) = 3 /\ merged_from = "after" /\ Len(merged_out) >= 3
    /\ \A i, j \in 1..3 : set_rules[i] = set_rules[j] => i = j
    /\ \E v \in Range(merged_out) : Cardinality(Producers(v, MaxPulls)) >= 2
    /\ \E v \in Range(merged_out) : Cardinality(Producers(v, MaxPulls)) = 1
C15_WitnessAll ==
    /\ Len(set_rules) = 3 /\ merged_from = "all" /\ merged_st = "ended"
    /\ \A i, j \in 1..3 : set_rules[i] = set_rules[j] => i = j
C15_WitnessPanic ==
    /\ Len(set_rules) = 3 /\ merged_st = "panicked"
    /\ RRule_after(set_rules[3], min).panic /\ ~RRule_after(set_rules[1], min).panic

\* The values of Set.all(), as many as are needed to see MaxPulls of them at
\* or after min (no Set of SetRules has more than three instants before
\* SetMin).
AllMerged == CHOOSE q \in MergeRun(Set_all(set_rules), MaxPulls + 3) : TRUE

\* C17: the stream of Set.after(min) is the merge, each instant once, of the
\* rules' after(min) streams, has no value before min, and is the stream of
\* Set.all() without its values before min.
C17_SetAfterIsAllFromMin ==
    (merged_from = "after" /\ Pulled(merged_st)) =>
        /\ \A i \in 1..Len(merged_out) : merged_out[i] >= min
        /\ Range(merged_out) \subseteq Produced(MaxPulls + 1)
        /\ IsPrefix(merged_out, FromMin(AllMerged))
        /\ merged_st = "ended" => Len(FromMin(AllMerged)) <= Len(merged_out)

\* The two parts of C17 that speak of the rules' after(min) streams only:
\* the merged stream is their union, each instant once and in ascending
\* order, and has no value before min.
C17_SetAfterIsMergeOfAfters ==
    (merged_from = "after" /\ Pulled(merged_st)) =>
        /\ \A i \in 1..Len(merged_out) : merged_out[i] >= min
        /\ StrictlyAscending(merged_out)
        /\ Range(merged_out) \subseteq Produced(MaxPulls + 1)
        /\ \A v \in Produced(MaxPulls + 1) :
              (\E i \in 1..Len(merged_out) : v <= merged_out[i]) => v \in Range(merged_out)
        /\ merged_st = "ended" => Range(merged_out) = Produced(MaxPulls + 1)

(***************************************************************************)
(* The heap between two pulls on the merged stream.                        *)
(***************************************************************************)
RECURSIVE IterAfter(_, _)
\* The iterator after k calls of next().
IterAfter(it, k) ==
    IF k = 0 THEN it ELSE IterAfter(TzDateIterator_next(it).it, k - 1)

\* How many values of the i-th rule's stream the merge has consumed: those
\* not after the last value the merged stream has yielded.
Consumed(i) ==
    IF merged_out = <<>> THEN 0
    ELSE LET s == RuleStream(i, MaxPulls + 1)
         IN Cardinality({k \in 1..Len(s) : s[k] <= merged_out[Len(merged_out)]})

\* C21: between two pulls the heap holds, for each rule whose stream has a
\* value beyond those consumed, exactly one holder: that next value, with
\* the iterator pulled exactly that far; it holds nothing for a rule whose
\* stream is exhausted, and never more holders than the Set has rules.
C21_HeapOnePendingPerLiveRule ==
    Pulled(merged_st) =>
        /\ Cardinality(min_heap) <= Len(set_rules)
        /\ \A h \in min_heap : h.idx \in DOMAIN set_rules
        /\ \A g, h \in min_heap : g.idx = h.idx => g = h
        /\ \A i \in DOMAIN set_rules :
              LET s == RuleStream(i, MaxPulls + 1)
                  c == Consumed(i)
                  held == {h \in min_heap : h.idx = i}
              IN IF Len(s) > c
                 THEN held = {IterHolder(i, s[c + 1], IterAfter(RuleIter(i), c + 1))}
                 ELSE held = {}
\* Three rules, the merged stream pulled at least twice: one rule exhausted
\* and gone from the heap, the others pending with different numbers of
\* values consumed.
C21_Witness ==
    /\ Len(set_rules) = 3 /\ merged_st = "live" /\ Len(merged_out) >= 2
    /\ Cardinality(min_heap) = 2
    /\ \E i \in 1..3 : Consumed(i) >= 1 /\ \A h \in min_heap : h.idx # i
    /\ \E g, h \in min_heap : Consumed(g.idx) > Consumed(h.idx) /\ Consumed(h.idx) >= 1

(***************************************************************************)
(* The calls of next() on the merged stream.                               *)
(***************************************************************************)
\* Every rule's stream is exhausted: the merge has consumed all its values.
AllExhausted ==
    \A i \in DOMAIN set_rules : Len(RuleStream(i, MaxPulls + 1)) <= Consumed(i)

\* C22: every call of next() on the merged stream returns after at most as
\* many rounds of its loop as the Set has rules; it returns None exactly
\* when every rule's stream is exhausted; and after a None every later call
\* returns None too.
C22_MergedPullTerminates ==
    [][merged_pulls' = merged_pulls + 1 =>
          /\ merged_rounds' <= Len(set_rules)
          /\ merged_out' = merged_out <=> AllExhausted
          /\ merged_out' = merged_out => merged_st' = "ended"
          /\ merged_out' # merged_out => Len(merged_out') = Len(merged_out) + 1
          /\ merged_st = "ended" => merged_st' = "ended" /\ merged_out' = merged_out]_vars
\* A call that took as many rounds as the Set has rules (three rules with
\* the same instant pending).
C22_Witness ==
    /\ Len(set_rules) = 3 /\ merged_rounds = 3 /\ Len(merged_out) >= 2
C22_WitnessEnded ==
    /\ Len(set_rules) = 3 /\ merged_st = "ended" /\ Len(merged_out) >= 3
    /\ merged_pulls >= Len(merged_out) + 2

(***************************************************************************)
(* Iterators of one rule, merged streams of one Set.                       *)
(***************************************************************************)
\* An iterator (status st, state it, values out) obtained as start is what
\* start becomes when pulled alone: the same values, the same state after
\* them, the same end.
Alone(start, st, it, out) ==
    Pulled(st) =>
        /\ out = Take(start, Len(out))
        /\ it = IterAfter(start, Len(out))
        /\ st = "ended" => stops(it)

\* A merged stream (entry point from, status st, values out) of the Set is
\* what that entry point yields when its stream is pulled alone.
MergedAlone(from, st, heap, out) ==
    Pulled(st) =>
        LET m == IF from = "after" THEN Set_after(set_rules, min)
                 ELSE [panic |-> FALSE, heap |-> Set_all(set_rules)]
        IN /\ ~m.panic
           /\ MergeRun(m.heap, Len(out)) = {out}
           /\ st = "ended" => heap = {} /\ MergeRun(m.heap, Len(out) + 1) = {out}

\* A fresh iterator of all() stands at start with the rule's whole policy,
\* whatever has been pulled from the other iterator of the rule.
FreshAllAtStart ==
    (all_st = "live" /\ all_pulls = 0) =>
        /\ all_it.cursor = StartDt
        /\ all_it.end = end_from(rule.end)
        /\ all_out = <<>>

Independent ==
    /\ Alone(RRule_all(rule), all_st, all_it, all_out)
    /\ Alone(RRule_after(rule, min).it, after_st, after_it, after_out)
    /\ FreshAllAtStart
    /\ MergedAlone(merged_from, merged_st, min_heap, merged_out)
    /\ MergedAlone(other_from, other_st, other_heap, other_out)

\* C23: in every state, after any interleaving of calls and pulls, each
\* iterator of the rule and each merged stream of the Set is what it would
\* be if it were pulled alone, and an iterator that all() has just returned
\* stands at start with the whole Count; and no step changes the rule
\* (interval, start, zone, end), the instant sought or the Set's rules.
C23_IteratorsIndependent ==
    /\ []Independent
    /\ [][rule' = rule /\ min' = min /\ set_rules' = set_rules]_vars
\* Both iterators of a Count rule pulled, after(min) past start, all() called
\* only after after(min) had been pulled to its end.
C23_Witness ==
    /\ rule.end.tag = "Count" /\ rule.end.v >= 2 /\ min > rule.dtstart
    /\ after_st = "ended" /\ Len(after_out) = rule.end.v
    /\ all_st = "live" /\ Len(all_out) >= 2 /\ all_out # after_out
    /\ all_pulls < after_pulls
C23_WitnessFresh ==
    /\ rule.end.tag = "Count" /\ rule.end.v >= 2
    /\ after_st = "ended" /\ Len(after_out) >= 2
    /\ all_st = "live" /\ all_pulls = 0 /\ all_it.end = Count(rule.end.v)
C23_WitnessSet ==
    /\ Len(set_rules) = 2 /\ set_rules[1] # set_rules[2]
    /\ merged_from = "all" /\ Len(merged_out) >= 2
    /\ other_from = "after" /\ Len(other_out) >= 2
    /\ other_st = "ended" /\ merged_st = "live"

=========================================================================
